---- MODULE Spec2Model ----
(***************************************************************************)
(* A model of gol.py: Cell (a committed state and a staged state), the     *)
(* PlaneTopology (row-major cell list, find_neighbors), conway_rule and    *)
(* the stepper's two-pass (stage, then commit) generation loop.            *)
(*                                                                         *)
(* Reading of the source.  gol.py does not compile as it stands            *)
(* (`if cell.status = "Alive":` at line 183) and refers to names that are  *)
(* never bound (`Dead`, `initial_state`, `@state.set`, `cell.status`,      *)
(* `cells` at line 177).  The model reads these the only way the text      *)
(* allows: `=` as `==`, `status` as the `state` property, `Dead` as the    *)
(* string "Dead", the `@state.set` methods as plain methods and `cells`    *)
(* as `topology.cells`.  Everything the code computes is kept as written:  *)
(* the index arithmetic of find_neighbors, its [-1, 1] offset lists, its   *)
(* missing upper-bound test (a Python list subscript out of range raises   *)
(* IndexError, a negative one counts from the end), the len() of           *)
(* conway_rule, the truthiness test of Cell.update and the unchecked       *)
(* constructor.                                                            *)
(*                                                                         *)
(* A cell is identified by its flat index in topology.cells (0-based, as   *)
(* in Python); list.index(cell) is by identity, since Cell defines no      *)
(* __eq__.                                                                 *)
(***************************************************************************)
EXTENDS Integers, Sequences, FiniteSets, TLC

\* ---------------------------------------------------------------- bounds
MaxHeight == 4
MaxWidth == 4
MaxLive == 1
MaxSteps == 2
MaxCells == 3
MaxNeighbors == 8
MaxPattern == 4

\* ---------------------------------------------------------------- values
States == {"Alive", "Dead"}
None == "None"

Ok(v) == [exc |-> "none", val |-> v]
Raise(e) == [exc |-> e, val |-> <<>>]

Range(s) == {s[k] : k \in DOMAIN s}

\* ------------------------------------------------------------------ Cell
\* The state property: the committed state, never the staged one.
read_state(S, c) == S[c]

\* Python truthiness of _new_state: None is false, a non-empty string true.
Truthy(v) == v # None

\* The bug of testing the staged value for "Alive" instead of for presence:
\* a staged "Dead" is never installed.
update_alive_only(C, c) ==
    IF C.new_state[c] = "Alive"
    THEN [state |-> [C.state EXCEPT ![c] = C.new_state[c]],
          new_state |-> [C.new_state EXCEPT ![c] = None]]
    ELSE C

\* The bug of leaving the staged slot filled after installing it.
update_keeps_staged(C, c) ==
    IF Truthy(C.new_state[c])
    THEN [C EXCEPT !.state[c] = C.new_state[c]]
    ELSE C

\* The bug of a commit that empties the staged slot of every cell.
update_clears_all(C, c) ==
    IF Truthy(C.new_state[c])
    THEN [state |-> [C.state EXCEPT ![c] = C.new_state[c]],
          new_state |-> [d \in DOMAIN C.new_state |-> None]]
    ELSE C

\* Cell.update: C is [state, new_state] of all cells, c the cell.
update(C, c) ==
    IF Truthy(C.new_state[c])
    THEN [state |-> [C.state EXCEPT ![c] = C.new_state[c]],
          new_state |-> [C.new_state EXCEPT ![c] = None]]
    ELSE C

\* The bug of writing the rule's result to _state instead of _new_state.
stage_result_in_place(C, c, r) ==
    [C EXCEPT !.state[c] = IF r = "Alive" THEN "Alive" ELSE "Dead"]

\* The bug of a stage that keeps a value staged earlier (first write wins).
stage_result_first_wins(C, c, r) ==
    IF Truthy(C.new_state[c])
    THEN C
    ELSE [C EXCEPT !.new_state[c] = IF r = "Alive" THEN "Alive" ELSE "Dead"]

\* Cell.transactional_update after rule(self, neighbors_fn) returned r.
stage_result(C, c, r) ==
    [C EXCEPT !.new_state[c] = IF r = "Alive" THEN "Alive" ELSE "Dead"]

\* ------------------------------------------------------- Python helpers
\* a % b with the sign of the divisor (b # 0).
PyMod(a, b) == IF b > 0 THEN a % b ELSE 0 - ((0 - a) % (0 - b))

\* list[k] on a list of length n: in range, or counted from the end.
ListIndexOK(n, k) == k >= 0 - n /\ k < n
ListIndex(n, k) == IF k < 0 THEN k + n ELSE k

\* --------------------------------------------------------- PlaneTopology
\* len([Cell() for i in xrange(height * width)])
NumCells(h, w) == IF h * w > 0 THEN h * w ELSE 0

CellsOf(n) == 0 .. (n - 1)

\* row * self._width + column
FlatIndex(w, row, column) == row * w + column

\* PlaneTopology.__init__: every cell is made Dead (Cell.__init__), then
\* cells[row * width + column].alive() for each pair of initial_live_cells.
\* Gives the committed states, or the exception the subscript raised.
PlaneInit(h, w, lv) ==
    LET n == NumCells(h, w)
    IN  IF \E rc \in lv : ~ListIndexOK(n, FlatIndex(w, rc[1], rc[2]))
        THEN Raise("IndexError")
        ELSE Ok([c \in CellsOf(n) |->
                   IF \E rc \in lv : ListIndex(n, FlatIndex(w, rc[1], rc[2])) = c
                   THEN "Alive" ELSE "Dead"])

\* for i in [-1, 1]: for j in [-1, 1]
NeighborOffsets == << <<0 - 1, 0 - 1>>, <<0 - 1, 1>>, <<1, 0 - 1>>, <<1, 1>> >>

\* row = flat_index % self._width
PlaneRow(w, f) == PyMod(f, w)
\* column = flat_index - (row * self._width)
PlaneColumn(w, f) == f - (PlaneRow(w, f) * w)

\* The (neighbor_row, neighbor_column) pairs that pass the test of line 160,
\* in the order the loops produce them.
KeptCandidates(w, f) ==
    LET cand == [k \in 1..Len(NeighborOffsets) |->
                   <<PlaneRow(w, f) + NeighborOffsets[k][1],
                     PlaneColumn(w, f) + NeighborOffsets[k][2]>>]
    IN  SelectSeq(cand, LAMBDA p : p[1] >= 0 /\ p[2] >= 0)

\* The bug of swallowing the failed lookup: a cell that is not in the list
\* gets an empty neighbour list.
plane_find_neighbors_swallows(h, w, f) ==
    LET n == NumCells(h, w)
    IN  IF f \notin CellsOf(n) THEN Ok(<<>>)
        ELSE LET kept == KeptCandidates(w, f)
                 idx == [k \in 1..Len(kept) |-> FlatIndex(w, kept[k][1], kept[k][2])]
             IN  IF \E k \in 1..Len(idx) : ~ListIndexOK(n, idx[k])
                 THEN Raise("IndexError")
                 ELSE Ok([k \in 1..Len(idx) |-> ListIndex(n, idx[k])])

\* PlaneTopology.find_neighbors(cell) for the cell f of an h x w plane:
\* the list of neighbour cells, or the exception raised.  A cell that is
\* not in the list makes list.index raise ValueError.
plane_find_neighbors(h, w, f) ==
    LET n == NumCells(h, w)
    IN  IF f \notin CellsOf(n) THEN Raise("ValueError")
        ELSE LET kept == KeptCandidates(w, f)
                 idx == [k \in 1..Len(kept) |-> FlatIndex(w, kept[k][1], kept[k][2])]
             IN  IF \E k \in 1..Len(idx) : ~ListIndexOK(n, idx[k])
                 THEN Raise("IndexError")
                 ELSE Ok([k \in 1..Len(idx) |-> ListIndex(n, idx[k])])

\* ------------------------------------------------------------------ rule
\* conway_rule(cell, neighbor_fn), given cell.status and the list of the
\* statuses of the cells neighbor_fn(cell) returned.
conway_rule(status, statuses) ==
    LET living_neighbors == Len(statuses)
    IN  IF status = "Alive"
        THEN IF living_neighbors < 2 THEN "Dead"
             ELSE IF living_neighbors > 3 THEN "Dead"
             ELSE "Alive"
        ELSE IF living_neighbors = 3 THEN "Alive" ELSE "Dead"

\* [neighbor.status for neighbor in neighbor_fn(cell)]
Statuses(S, nbs) == [k \in 1..Len(nbs) |-> read_state(S, nbs[k])]

\* A rule supplied by the caller in place of conway_rule (the stepper and
\* transactional_update take the rule as a parameter): Alive iff an odd
\* number of the neighbours read Alive.
parity_rule(status, statuses) ==
    IF Cardinality({k \in 1..Len(statuses) : statuses[k] = "Alive"}) % 2 = 1
    THEN "Alive" ELSE "Dead"

Rules == {"conway_rule", "parity_rule"}

\* rule(cell, neighbor_fn), where nb is what neighbor_fn(cell) gives: the
\* rule's result, or the exception of neighbor_fn propagated.
apply_rule(r, S, c, nb) ==
    IF nb.exc # "none" THEN Raise(nb.exc)
    ELSE IF r = "conway_rule"
         THEN Ok(conway_rule(read_state(S, c), Statuses(S, nb.val)))
         ELSE Ok(parity_rule(read_state(S, c), Statuses(S, nb.val)))

\* --------------------------------------------------------------- state
VARIABLES
    kind,         \* "None" (nothing built), "Plane", or "Graph" (another topology)
    height,       \* PlaneTopology._height
    width,        \* PlaneTopology._width
    live,         \* the initial_live_cells the constructor was given
    adj,          \* a Graph topology's neighbour lists
    origin,       \* history: the committed states when stepper() was called
    rule,         \* the rule given to stepper()
    state,        \* Cell._state of every cell, by flat index
    new_state,    \* Cell._new_state of every cell, by flat index
    pc,           \* where the program is
    exc,          \* the exception that ended the last operation, or "none"
    steps,        \* step_function's argument
    step,         \* the loop variable of line 174
    i,            \* position of the running cell loop in topology.cells
    gens_done,    \* generations completed since construction
    prev,         \* history: the committed states when the generation began
    call_cells,   \* history: [state, new_state] when the last call began
    n_staged,     \* history: transactional_update calls completed in this call
    n_committed,  \* history: update calls completed in this call
    visited,      \* cells a shuffled stage pass has visited
    q_cell,       \* the cell of the last call a client made
    q_out,        \* its outcome
    r_in          \* the input of the last direct conway_rule evaluation

vars == <<kind, height, width, live, adj, origin, rule, state, new_state, pc, exc,
          steps, step, i, gens_done, prev, call_cells, n_staged, n_committed,
          visited, q_cell, q_out, r_in>>

topo_vars == <<kind, height, width, live, adj, origin>>
cell_vars == <<state, new_state>>
loop_vars == <<steps, step, i, gens_done>>
hist_vars == <<prev, call_cells, n_staged, n_committed>>
probe_vars == <<visited, q_cell, q_out, r_in>>

N == Cardinality(DOMAIN state)
Cells == CellsOf(N)
CellRec == [state |-> state, new_state |-> new_state]

\* topology.find_neighbors(c): PlaneTopology's, or the other topology's list.
find_neighbors(c) ==
    IF kind = "Plane" THEN plane_find_neighbors(height, width, c)
    ELSE IF c \in DOMAIN adj THEN Ok(adj[c]) ELSE Raise("ValueError")

\* The bug of a state read that gives the staged value when there is one:
\* the rule sees what earlier cells of the same pass have staged.
transactional_update_reads_staged(C, c, r) ==
    LET seen == [d \in DOMAIN C.state |->
                   IF Truthy(C.new_state[d]) THEN C.new_state[d] ELSE C.state[d]]
        v == apply_rule(r, seen, c, find_neighbors(c))
    IN  IF v.exc # "none" THEN Raise(v.exc) ELSE Ok(stage_result(C, c, v.val))

\* Cell.transactional_update(r, topology.find_neighbors) on cell c of C:
\* the cells afterwards, or the exception the rule raised (nothing staged).
transactional_update(C, c, r) ==
    LET v == apply_rule(r, C.state, c, find_neighbors(c))
    IN  IF v.exc # "none" THEN Raise(v.exc) ELSE Ok(stage_result(C, c, v.val))

Init ==
    /\ kind = "None" /\ height = 0 /\ width = 0 /\ live = {} /\ adj = <<>>
    /\ origin = <<>>
    /\ rule = "None"
    /\ state = <<>> /\ new_state = <<>>
    /\ pc = "new" /\ exc = "none"
    /\ steps = 0 /\ step = 0 /\ i = 0 /\ gens_done = 0
    /\ prev = <<>> /\ call_cells = [state |-> <<>>, new_state |-> <<>>]
    /\ n_staged = 0 /\ n_committed = 0
    /\ visited = {} /\ q_cell = 0 /\ q_out = Ok(<<>>) /\ r_in = <<>>

\* PlaneTopology(h, w, lv)
ConstructPlane(h, w, lv) ==
    /\ pc = "new"
    /\ LET r == PlaneInit(h, w, lv)
       IN  /\ height' = h /\ width' = w /\ live' = lv
           /\ IF r.exc = "none"
              THEN /\ kind' = "Plane"
                   /\ state' = r.val
                   /\ new_state' = [c \in DOMAIN r.val |-> None]
                   /\ pc' = "built"
                   /\ exc' = "none"
              ELSE /\ kind' = "None"
                   /\ UNCHANGED cell_vars
                   /\ pc' = "raised"
                   /\ exc' = r.exc
    /\ UNCHANGED <<adj, origin, rule, loop_vars, hist_vars, probe_vars>>

\* The elements of a finite set of integers in increasing order.
RECURSIVE SortedSeq(_)
SortedSeq(T) ==
    IF T = {} THEN <<>>
    ELSE LET m == CHOOSE x \in T : \A y \in T : x <= y
         IN  <<m>> \o SortedSeq(T \ {m})

Edges(n) == {e \in SUBSET CellsOf(n) : Cardinality(e) = 2}

\* A topology other than the plane, as stepper() accepts any object with
\* cells and find_neighbors (AbstractTopology): n cells with the committed
\* states st, the neighbours of a cell being the cells it shares an edge of
\* es with.  Its find_neighbors raises for no cell of its own.
ConstructGraph(n, es, st) ==
    /\ pc = "new"
    /\ kind' = "Graph"
    /\ adj' = [c \in CellsOf(n) |-> SortedSeq({d \in CellsOf(n) : {c, d} \in es})]
    /\ state' = st
    /\ new_state' = [c \in CellsOf(n) |-> None]
    /\ pc' = "built"
    /\ UNCHANGED <<height, width, live, origin, rule, exc, loop_vars, hist_vars,
                   probe_vars>>

\* stepper(topology, rule): returns step_function, closed over both.
stepper(r) ==
    /\ pc = "built"
    /\ rule' = r
    /\ origin' = state
    /\ pc' = "ready"
    /\ UNCHANGED <<kind, height, width, live, adj, cell_vars, exc, loop_vars,
                   hist_vars, probe_vars>>

\* The bug of a stepper that keeps its generation counter between calls.
step_function_keeps_step(k) ==
    /\ pc \in {"ready", "returned"}
    /\ steps' = k
    /\ pc' = "loop"
    /\ call_cells' = CellRec
    /\ n_staged' = 0 /\ n_committed' = 0
    /\ UNCHANGED <<topo_vars, rule, cell_vars, exc, step, i, gens_done, prev,
                   probe_vars>>

\* step_function(k) is called, for the first time or after it returned.
step_function(k) ==
    /\ pc \in {"ready", "returned"}
    /\ steps' = k /\ step' = 0
    /\ pc' = "loop"
    /\ call_cells' = CellRec
    /\ n_staged' = 0 /\ n_committed' = 0
    /\ UNCHANGED <<topo_vars, rule, cell_vars, exc, i, gens_done, prev, probe_vars>>

\* The bug of an inclusive loop bound: one generation too many.
LoopNextInclusive ==
    /\ pc = "loop"
    /\ step <= steps
    /\ pc' = "stage" /\ i' = 0
    /\ prev' = state
    /\ UNCHANGED <<topo_vars, rule, cell_vars, exc, steps, step, gens_done,
                   call_cells, n_staged, n_committed, probe_vars>>

\* for step in xrange(steps): another generation begins.
LoopNext ==
    /\ pc = "loop"
    /\ step < steps
    /\ pc' = "stage" /\ i' = 0
    /\ prev' = state
    /\ UNCHANGED <<topo_vars, rule, cell_vars, exc, steps, step, gens_done,
                   call_cells, n_staged, n_committed, probe_vars>>

\* xrange(steps) is exhausted: step_function returns.
Return ==
    /\ pc = "loop"
    /\ step >= steps
    /\ pc' = "returned"
    /\ UNCHANGED <<topo_vars, rule, cell_vars, exc, loop_vars, hist_vars, probe_vars>>

\* The bug of one loop doing both: each cell is committed as soon as its
\* next state is computed.
StageCellCollapsed ==
    /\ pc = "stage"
    /\ i < N
    /\ LET r == transactional_update(CellRec, i, rule)
       IN  IF r.exc = "none"
           THEN /\ state' = update(r.val, i).state
                /\ new_state' = update(r.val, i).new_state
                /\ i' = i + 1
                /\ n_staged' = n_staged + 1
                /\ n_committed' = n_committed + 1
                /\ UNCHANGED <<pc, exc>>
           ELSE /\ pc' = "raised"
                /\ exc' = r.exc
                /\ UNCHANGED <<cell_vars, i, n_staged, n_committed>>
    /\ UNCHANGED <<topo_vars, rule, steps, step, gens_done, prev, call_cells,
                   probe_vars>>

\* One iteration of `for cell in topology.cells: cell.transactional_update(...)`.
\* An exception leaves step_function at once, whatever was staged before.
StageCell ==
    /\ pc = "stage"
    /\ i < N
    /\ LET r == transactional_update(CellRec, i, rule)
       IN  IF r.exc = "none"
           THEN /\ state' = r.val.state
                /\ new_state' = r.val.new_state
                /\ i' = i + 1
                /\ n_staged' = n_staged + 1
                /\ UNCHANGED <<pc, exc>>
           ELSE /\ pc' = "raised"
                /\ exc' = r.exc
                /\ UNCHANGED <<cell_vars, i, n_staged>>
    /\ UNCHANGED <<topo_vars, rule, steps, step, gens_done, prev, call_cells,
                   n_committed, probe_vars>>

\* The first loop is exhausted: the second loop begins.
StageEnd ==
    /\ pc = "stage"
    /\ i >= N
    /\ pc' = "commit" /\ i' = 0
    /\ UNCHANGED <<topo_vars, rule, cell_vars, exc, steps, step, gens_done,
                   hist_vars, probe_vars>>

\* One iteration of `for cell in cells: cell.update()`.
CommitCell ==
    /\ pc = "commit"
    /\ i < N
    /\ LET C == update(CellRec, i)
       IN  state' = C.state /\ new_state' = C.new_state
    /\ i' = i + 1
    /\ n_committed' = n_committed + 1
    /\ UNCHANGED <<topo_vars, rule, pc, exc, steps, step, gens_done, prev,
                   call_cells, n_staged, probe_vars>>

\* The bug of a commit pass that stops one cell early.
CommitEndEarly ==
    /\ pc = "commit"
    /\ i >= N - 1
    /\ pc' = "loop"
    /\ step' = step + 1
    /\ gens_done' = gens_done + 1
    /\ UNCHANGED <<topo_vars, rule, cell_vars, exc, steps, i, hist_vars, probe_vars>>

\* The second loop is exhausted: back to the head of the generation loop.
CommitEnd ==
    /\ pc = "commit"
    /\ i >= N
    /\ pc' = "loop"
    /\ step' = step + 1
    /\ gens_done' = gens_done + 1
    /\ UNCHANGED <<topo_vars, rule, cell_vars, exc, steps, i, hist_vars, probe_vars>>

\* The constructor's inputs: any dimensions from -1 up, and up to MaxLive
\* pairs whose rows and columns run from -1 to one past the largest index.
Dims == (0 - 1) .. MaxHeight
Widths == (0 - 1) .. MaxWidth
Coords == Dims \X Widths
RECURSIVE SubsetsUpTo(_, _)
SubsetsUpTo(T, k) ==
    IF k = 0 THEN {{}}
    ELSE LET P == SubsetsUpTo(T, k - 1) IN P \cup {p \cup {x} : p \in P, x \in T}
LiveInputs == SubsetsUpTo(Coords, MaxLive)

Next ==
    \/ pc = "new" /\ \E h \in Dims, w \in Widths, lv \in LiveInputs :
          ConstructPlane(h, w, lv)
    \/ pc = "new" /\ \E n \in 1..MaxCells :
          \E es \in SUBSET Edges(n), st \in [CellsOf(n) -> States] :
             ConstructGraph(n, es, st)
    \/ \E r \in Rules : stepper(r)
    \/ pc \in {"ready", "returned"} /\ \E k \in 0..(MaxSteps - gens_done) : step_function(k)
    \/ LoopNext
    \/ Return
    \/ StageCell
    \/ StageEnd
    \/ CommitCell
    \/ CommitEnd

Spec == Init /\ [][Next]_vars

\* ------------------------------------------------------- the stepper
\* The synchronous update of a whole grid P: every cell's next state from
\* the rule applied to P alone.
SyncNext(P) ==
    [c \in DOMAIN P |-> apply_rule(rule, P, c, find_neighbors(c)).val]

\* A generation has run to its end and nothing has happened since.
GenerationComplete ==
    \/ pc = "commit" /\ i >= N
    \/ pc \in {"loop", "returned"} /\ step > 0

\* C1: after a complete generation (stage pass over all cells, then commit
\* pass over all cells) every cell's committed state is the rule applied to
\* the committed states the grid had when the generation began.
C1_SynchronousUpdate ==
    GenerationComplete =>
        \A c \in Cells : read_state(state, c) = SyncNext(prev)[c]

\* A generation that made one cell Alive and another Dead has completed.
C1_Witness ==
    /\ pc = "commit" /\ i >= N
    /\ \E c, d \in Cells :
          /\ prev[c] = "Dead" /\ state[c] = "Alive"
          /\ prev[d] = "Alive" /\ state[d] = "Dead"

\* C2: a cell's committed state is changed only by that cell's commit,
\* which installs the staged value; staging changes no committed state, so
\* during the stage pass every state read gives the value the cell had when
\* the generation began, never a staged one.
C2_OnlyCommitWrites ==
    [][pc # "new" =>
         /\ \A c \in Cells :
               state'[c] # state[c] =>
                  pc = "commit" /\ i = c /\ state'[c] = new_state[c]
         /\ pc' = "stage" => \A c \in Cells : read_state(state', c) = prev'[c]]_vars

\* In the stage pass a cell holds a staged value unlike its committed state.
C2_Witness ==
    /\ pc = "stage"
    /\ \E c \in Cells : new_state[c] \in States /\ new_state[c] # state[c]

\* C4: in the generation numbered g of a call (g = 0, 1, ...) no update
\* runs before all N transactional_update calls of that generation have
\* completed, and none of these runs before all N updates of the
\* generation before.
C4_Barrier ==
    \A g \in 0..MaxSteps :
       /\ n_committed > g * N => n_staged >= (g + 1) * N
       /\ n_staged > g * N => n_committed >= g * N

\* The commit pass of a second generation is under way on several cells.
C4_Witness ==
    /\ pc = "commit" /\ step = 1 /\ i = 1 /\ N >= 2
    /\ n_committed = N + 1

\* C9: step_function(0) performs no transactional_update and no update and
\* leaves every cell's committed state and staged slot as they were.
C9_ZeroSteps ==
    /\ pc \in {"stage", "commit"} => steps > 0
    /\ (pc \in {"loop", "returned"} /\ steps = 0) =>
          /\ CellRec = call_cells
          /\ n_staged = 0 /\ n_committed = 0

\* step_function(0) has returned on a grid that an earlier call changed.
C9_Witness ==
    /\ pc = "returned" /\ steps = 0 /\ gens_done > 0
    /\ \E c \in Cells : state[c] = "Alive"

\* ------------------------------------------------- the plane, queried
\* topology.find_neighbors(c) called by a client on a built plane; c = N
\* stands for a cell that is not in topology.cells.
QueryNeighbors(c) ==
    /\ pc \in {"built", "queried"}
    /\ kind = "Plane"
    /\ q_cell' = c
    /\ q_out' = find_neighbors(c)
    /\ pc' = "queried"
    /\ call_cells' = CellRec
    /\ UNCHANGED <<topo_vars, rule, cell_vars, exc, loop_vars, prev, n_staged,
                   n_committed, visited, r_in>>

NextPlane ==
    \/ pc = "new" /\ \E h \in Dims, w \in Widths, lv \in LiveInputs :
          ConstructPlane(h, w, lv)
    \/ \E c \in 0..N : QueryNeighbors(c)

SpecPlane == Init /\ [][NextPlane]_vars

\* The cell at (row, column) of an h x w grid is the one at row * w + column;
\* these are the positions the Moore neighbourhood of f keeps inside the grid.
MooreCells(h, w, f) ==
    LET r == f \div w
        c == f % w
    IN  {(r + di) * w + (c + dj) :
            <<di, dj>> \in {d \in (0 - 1 .. 1) \X (0 - 1 .. 1) :
                              /\ d # <<0, 0>>
                              /\ r + d[1] \in 0..(h - 1)
                              /\ c + d[2] \in 0..(w - 1)}}

\* C5: on a plane of positive height and width, find_neighbors of a cell
\* returns exactly the cells of its Moore neighbourhood that lie inside the
\* grid, each once.
C5_MooreNeighborhood ==
    (pc = "queried" /\ height > 0 /\ width > 0 /\ q_cell \in Cells) =>
        /\ q_out.exc = "none"
        /\ Range(q_out.val) = MooreCells(height, width, q_cell)
        /\ Len(q_out.val) = Cardinality(MooreCells(height, width, q_cell))

\* C6: on a plane of positive height and width, the list find_neighbors
\* returns for a cell does not contain that cell.
C6_NoSelfNeighbor ==
    (pc = "queried" /\ height > 0 /\ width > 0 /\ q_cell \in Cells
       /\ q_out.exc = "none") =>
        q_cell \notin Range(q_out.val)

\* The constructor's arguments are the ones the design allows.
ValidConfig(h, w, lv) ==
    /\ h > 0 /\ w > 0
    /\ \A rc \in lv : rc[1] \in 0..(h - 1) /\ rc[2] \in 0..(w - 1)

\* C10: a constructor call with a non-positive dimension or a live-cell
\* coordinate outside the grid ends in an error and builds no topology.
C10_ConfigurationError ==
    (pc # "new" /\ ~ValidConfig(height, width, live)) =>
        pc = "raised" /\ kind = "None"

\* C11: find_neighbors called with a cell that is not in topology.cells
\* raises at the lookup (list.index: ValueError), returns no neighbour
\* list, and leaves every cell's committed state and staged slot as it was.
C11_ForeignCellRaises ==
    (pc = "queried" /\ q_cell \notin Cells) =>
        /\ q_out.exc = "ValueError"
        /\ q_out.val = <<>>
        /\ CellRec = call_cells

\* A plane with an Alive cell has been asked for a foreign cell's neighbours.
C11_Witness ==
    /\ pc = "queried" /\ q_cell \notin Cells
    /\ \E c \in Cells : state[c] = "Alive"

\* ------------------------------------------------ conway_rule, alone
\* conway_rule applied to a cell of the given status whose neighbour
\* function returns cells of the given statuses.
EvalConway ==
    /\ pc = "rule"
    /\ q_out' = Ok(conway_rule(r_in.status, r_in.statuses))
    /\ pc' = "ruled"
    /\ UNCHANGED <<topo_vars, rule, cell_vars, exc, loop_vars, hist_vars,
                   visited, q_cell, r_in>>

StatusLists == UNION {[1..k -> States] : k \in 0..MaxNeighbors}

InitRule ==
    /\ kind = "None" /\ height = 0 /\ width = 0 /\ live = {} /\ adj = <<>>
    /\ origin = <<>>
    /\ rule = "conway_rule"
    /\ state = <<>> /\ new_state = <<>>
    /\ pc = "rule" /\ exc = "none"
    /\ steps = 0 /\ step = 0 /\ i = 0 /\ gens_done = 0
    /\ prev = <<>> /\ call_cells = [state |-> <<>>, new_state |-> <<>>]
    /\ n_staged = 0 /\ n_committed = 0
    /\ visited = {} /\ q_cell = 0 /\ q_out = Ok(<<>>)
    /\ r_in \in [status : States, statuses : StatusLists]

SpecRule == InitRule /\ [][EvalConway]_vars

AliveCount(statuses) == Cardinality({k \in DOMAIN statuses : statuses[k] = "Alive"})

\* C7: conway_rule gives Alive exactly when the cell is Alive and 2 or 3 of
\* its neighbours are Alive, or the cell is Dead and exactly 3 of its
\* neighbours are Alive; the count is of the Alive neighbours.
C7_ConwayCountsAlive ==
    pc = "ruled" =>
        (q_out.val = "Alive" <=>
            \/ r_in.status = "Alive" /\ AliveCount(r_in.statuses) \in {2, 3}
            \/ r_in.status = "Dead" /\ AliveCount(r_in.statuses) = 3)

\* ---------------------------------------------- the Cell's own methods
\* A client calls cell.transactional_update(r, topology.find_neighbors) on
\* cell c, outside any step_function call.
ClientStage(c, r) ==
    /\ pc \in {"built", "staged", "committed"}
    /\ kind = "Graph"
    /\ call_cells' = CellRec
    /\ q_cell' = c
    /\ LET v == transactional_update(CellRec, c, r)
       IN  IF v.exc = "none"
           THEN /\ state' = v.val.state
                /\ new_state' = v.val.new_state
                /\ pc' = "staged"
                /\ UNCHANGED exc
           ELSE /\ pc' = "raised"
                /\ exc' = v.exc
                /\ UNCHANGED cell_vars
    /\ UNCHANGED <<topo_vars, rule, loop_vars, prev, n_staged, n_committed,
                   visited, q_out, r_in>>

\* A client calls cell.update() on cell c.
ClientCommit(c) ==
    /\ pc \in {"built", "staged", "committed"}
    /\ kind = "Graph"
    /\ call_cells' = CellRec
    /\ q_cell' = c
    /\ LET C == update(CellRec, c)
       IN  state' = C.state /\ new_state' = C.new_state
    /\ pc' = "committed"
    /\ UNCHANGED <<topo_vars, rule, exc, loop_vars, prev, n_staged, n_committed,
                   visited, q_out, r_in>>

NextCell ==
    \/ pc = "new" /\ \E n \in 1..MaxCells :
          \E es \in SUBSET Edges(n), st \in [CellsOf(n) -> States] :
             ConstructGraph(n, es, st)
    \/ \E c \in Cells, r \in Rules : ClientStage(c, r)
    \/ \E c \in Cells : ClientCommit(c)

SpecCell == Init /\ [][NextCell]_vars

\* C8: update() of a cell with a staged value (Alive or Dead) makes it the
\* committed state and empties the staged slot; with nothing staged it
\* changes nothing; so a second update() right after changes nothing.
C8_Commit ==
    pc = "committed" =>
        /\ call_cells.new_state[q_cell] \in States =>
              /\ state[q_cell] = call_cells.new_state[q_cell]
              /\ new_state[q_cell] = None
        /\ call_cells.new_state[q_cell] = None => CellRec = call_cells
        /\ update(CellRec, q_cell) = CellRec

\* A staged Dead has just been committed over an Alive.
C8_Witness ==
    /\ pc = "committed"
    /\ call_cells.state[q_cell] = "Alive"
    /\ call_cells.new_state[q_cell] = "Dead"
    /\ state[q_cell] = "Dead"

\* ------------------------------------------- the stage pass, shuffled
\* The first loop of step_function run over topology.cells in list order,
\* from cell k on, on the cells C: what it leaves, as a value.
RECURSIVE StagePass(_, _)
StagePass(C, k) ==
    IF k >= Cardinality(DOMAIN C.state) THEN C
    ELSE LET v == transactional_update(C, k, rule)
         IN  IF v.exc = "none" THEN StagePass(v.val, k + 1) ELSE C

\* The second loop, likewise.
RECURSIVE CommitPass(_, _)
CommitPass(C, k) ==
    IF k >= Cardinality(DOMAIN C.state) THEN C
    ELSE CommitPass(update(C, k), k + 1)

\* A harness begins a stage pass with rule r that will visit the cells in
\* an order of its choosing.
ShuffleBegin(r) ==
    /\ pc = "built"
    /\ kind = "Graph"
    /\ rule' = r
    /\ visited' = {}
    /\ prev' = state
    /\ call_cells' = CellRec
    /\ pc' = "shuffle"
    /\ UNCHANGED <<topo_vars, cell_vars, exc, loop_vars, n_staged, n_committed,
                   q_cell, q_out, r_in>>

\* The pass visits c, a cell it has not visited yet.
ShuffleStage(c) ==
    /\ pc = "shuffle"
    /\ c \in Cells \ visited
    /\ q_cell' = c
    /\ LET v == transactional_update(CellRec, c, rule)
       IN  IF v.exc = "none"
           THEN /\ state' = v.val.state
                /\ new_state' = v.val.new_state
                /\ visited' = visited \cup {c}
                /\ UNCHANGED <<pc, exc>>
           ELSE /\ pc' = "raised"
                /\ exc' = v.exc
                /\ UNCHANGED <<cell_vars, visited>>
    /\ UNCHANGED <<topo_vars, rule, loop_vars, hist_vars, q_out, r_in>>

NextShuffle ==
    \/ pc = "new" /\ \E n \in 1..MaxCells :
          \E es \in SUBSET Edges(n), st \in [CellsOf(n) -> States] :
             ConstructGraph(n, es, st)
    \/ \E r \in Rules : ShuffleBegin(r)
    \/ \E c \in Cells : ShuffleStage(c)

SpecShuffle == Init /\ [][NextShuffle]_vars

PatternInputs(h, w) == SubsetsUpTo((0 .. (h - 1)) \X (0 .. (w - 1)), MaxPattern)

NextLife ==
    \/ pc = "new" /\ \E h \in 1..MaxHeight, w \in 1..MaxWidth :
          \E lv \in PatternInputs(h, w) : ConstructPlane(h, w, lv)
    \/ pc = "new" /\ \E n \in 1..MaxCells :
          \E es \in SUBSET Edges(n), st \in [CellsOf(n) -> States] :
             ConstructGraph(n, es, st)
    \/ \E r \in Rules : stepper(r)
    \/ pc \in {"ready", "returned"} /\ \E k \in 0..(MaxSteps - gens_done) : step_function(k)
    \/ LoopNext
    \/ Return
    \/ StageCell
    \/ StageEnd
    \/ CommitCell
    \/ CommitEnd

SpecLife == Init /\ [][NextLife]_vars

\* The first step_function call on the topology, of k generations, has
\* ended: it returned or it raised.
FirstCallEnded(k) ==
    /\ pc \in {"returned", "raised"}
    /\ steps = k
    /\ gens_done = step
    /\ call_cells.state = origin

\* The cells of a plane of width w at the given (row, column) pairs.
CellsAt(w, lv) == {FlatIndex(w, rc[1], rc[2]) : rc \in lv}

\* C12: on the 3 x 3 plane whose live cells are (0,1), (1,1), (2,1), one
\* generation under conway_rule leaves exactly (1,0), (1,1), (1,2) Alive.
C12_Blinker ==
    (/\ kind = "Plane" /\ height = 3 /\ width = 3
     /\ live = {<<0, 1>>, <<1, 1>>, <<2, 1>>}
     /\ rule = "conway_rule"
     /\ FirstCallEnded(1)) =>
        /\ pc = "returned"
        /\ \A c \in Cells :
              state[c] = "Alive" <=> c \in CellsAt(3, {<<1, 0>>, <<1, 1>>, <<1, 2>>})

\* The live cells are a 2 x 2 block that touches no border of the h x w grid.
InnerBlock(h, w, lv) ==
    \E r \in 1..(h - 3), c \in 1..(w - 3) :
       lv = {<<r, c>>, <<r, c + 1>>, <<r + 1, c>>, <<r + 1, c + 1>>}

\* C13: on a plane whose live cells are a 2 x 2 block away from the border,
\* any number of generations under conway_rule leaves the grid as it was.
C13_BlockStillLife ==
    (/\ kind = "Plane" /\ InnerBlock(height, width, live)
     /\ rule = "conway_rule"
     /\ pc \in {"returned", "raised"}) =>
        /\ pc = "returned"
        /\ state = origin

\* C14: on a plane with exactly one Alive cell, wherever it is, one
\* generation under conway_rule leaves every cell Dead.
C14_LoneCellDies ==
    (/\ kind = "Plane" /\ rule = "conway_rule"
     /\ ValidConfig(height, width, live) /\ Cardinality(live) = 1
     /\ FirstCallEnded(1)
     /\ Cardinality({c \in Cells : origin[c] = "Alive"}) = 1) =>
        /\ pc = "returned"
        /\ \A c \in Cells : state[c] = "Dead"

\* C20: on a plane built with positive height and width and in-range live
\* cells, step_function under conway_rule never ends in an exception, and a
\* call that has returned ran exactly the generations it was asked for.
C20_StepTerminatesCleanly ==
    (/\ kind = "Plane" /\ ValidConfig(height, width, live)
     /\ rule = "conway_rule") =>
        /\ pc # "raised"
        /\ pc = "returned" => step = steps

\* The grid P after k generations, each the synchronous update of the last.
RECURSIVE Generations(_, _)
Generations(P, k) == IF k <= 0 THEN P ELSE Generations(SyncNext(P), k - 1)

\* C15: a call of step_function with n generations that has returned ran n
\* generations from the committed grid it found, which the calls before it
\* left; so after calls of m and then n generations the grid is the one a
\* single call of m + n generations gives.
C15_SteppingComposes ==
    pc = "returned" =>
        /\ step = steps
        /\ state = Generations(call_cells.state, steps)
        /\ call_cells.state = Generations(origin, gens_done - steps)
        /\ state = Generations(origin, gens_done)

C15_Witness ==
    /\ pc = "returned" /\ steps = 1 /\ gens_done = 2
    /\ state # call_cells.state
    /\ call_cells.state # origin
    /\ state # origin

\* C16: a stage call on a cell leaves in its staged slot the value of that
\* call's rule result, whatever was staged there before, and the commit
\* that follows installs that last staged value.
C16_LastWriteWins ==
    [][/\ pc' = "staged" =>
             \A r \in Rules :
                ClientStage(q_cell', r) =>
                    new_state'[q_cell'] =
                       (IF apply_rule(r, state, q_cell', find_neighbors(q_cell')).val
                              = "Alive"
                        THEN "Alive" ELSE "Dead")
       /\ (pc = "staged" /\ pc' = "committed" /\ q_cell' = q_cell
              /\ ClientCommit(q_cell)) =>
             /\ state'[q_cell] = new_state[q_cell]
             /\ new_state'[q_cell] = None]_vars

\* A cell with Alive staged has just been staged again, with Dead.
C16_Witness ==
    /\ pc = "staged"
    /\ call_cells.new_state[q_cell] = "Alive"
    /\ new_state[q_cell] = "Dead"

\* C18: staging or committing a cell leaves the committed state and the
\* staged slot of every other cell as they were, and staging (the rule and
\* find_neighbors evaluated for the cell) changes no committed state at all:
\* its only write is the cell's own staged slot.
C18_OwnCellOnly ==
    /\ pc \in {"staged", "committed"} =>
          \A d \in Cells \ {q_cell} :
             /\ state[d] = call_cells.state[d]
             /\ new_state[d] = call_cells.new_state[d]
    /\ pc = "staged" => state = call_cells.state

\* A staged cell has just been committed while another cell holds a staged
\* value.
C18_Witness ==
    /\ pc = "committed"
    /\ call_cells.new_state[q_cell] # None
    /\ state[q_cell] # call_cells.state[q_cell]
    /\ \E d \in Cells \ {q_cell} : new_state[d] # None

\* C17: a plane built with height h and width w holds h * w cells in
\* row-major order in every state, the cell at row * w + column being the
\* cell of (row, column), and the cells built Alive are exactly those whose
\* (row, column) is in the initial live-cell list (find_neighbors changes
\* no state, so the grid in every state here is the grid as constructed).
C17_CellSequence ==
    (kind = "Plane" /\ pc \in {"built", "queried"} /\ height > 0 /\ width > 0) =>
        /\ N = height * width
        /\ \A row \in 0..(height - 1), column \in 0..(width - 1) :
              state[FlatIndex(width, row, column)] = "Alive"
                 <=> <<row, column>> \in live

====
